---- MODULE Spec2Model ----
(***************************************************************************)
(* State-machine model of LiquidityFundContract                            *)
(* (src/quipuswap_liquidity_proxy.py), the permissioned proxy that manages *)
(* liquidity on a Quipuswap pair.                                          *)
(*                                                                         *)
(* One action per entry point.  Every action is one whole call: it checks  *)
(* the sp.verify guards in the order of the source, and a failing call     *)
(* leaves the storage alone and emits nothing (Michelson aborts the whole  *)
(* call).  The variable `call` records the call that produced the current  *)
(* state: entry point, sender, parameter, what the oracle view returned,   *)
(* the result (OK or the error of the first failing instruction) and the   *)
(* operations the call emitted, in order.                                  *)
(***************************************************************************)
EXTENDS Integers, Sequences, FiniteSets, TLC

(***************************************************************************)
(* Bounds of the model.                                                    *)
(***************************************************************************)
\* token balances reported to sendAllTokens_callback are 0..MaxBalance
MaxBalance == 1
\* amounts passed to send / sendTokens / rescue* / vote / veto are 0..MaxAmount
MaxAmount == 1

(***************************************************************************)
(* Constants of the source.                                                *)
(***************************************************************************)
IDLE == 0
WAITING_FOR_TOKEN_BALANCE == 1

GOVERNOR_ADDRESS == "tz1YYnf7vGXqCmB1shNg4rHiTz5gwWTDYceB"
EXECUTOR_ADDRESS == "tz1YYnf7vGXqCmB1shNg4rHiTz5gwWTDYceB"
TOKEN_ADDRESS == "KT1K9gCRgaLRFKTErYt1wVxA3Frb9FjasjTV"
QUIPUSWAP_ADDRESS == "KT1K4EwTpbvYN9agJdjpyJm4ZZdhpUNKB3F6"
HARBINGER_ADDRESS == "KT1ENe4jbDE1QVG1euryp23GsAeWuEwJutQX"

\* sp.self_address: the proxy itself
SELF_ADDRESS == "KT1self"
\* some account that holds no role at deployment
OTHER_ADDRESS == "tz1other"

\* sp.none; sp.some(a) is kept as the address a itself
none == "none"

\* the volatilityTolerance default of __init__, sp.nat(5)
DEFAULT_VOLATILITY_TOLERANCE == 5
\* maxDataDelaySec has no default: it reaches the storage through
\* **extra_storage, here with the value of a one-minute delay
DeployedMaxDataDelaySec == {60}

\* Error values.  The ones of common/errors.py are kept by name; a failing
\* instruction without a message (a division by zero, sp.as_nat of a negative
\* number) is named after the instruction.
OK == "OK"
NOT_EXECUTOR == "NOT_EXECUTOR"
NOT_GOVERNOR == "NOT_GOVERNOR"
NOT_ADMIN == "NOT_ADMIN"
VWAP_VIEW_ERROR == "VWAP_VIEW_ERROR"
VOLATILITY == "VOLATILITY"
STALE_DATA == "STALE_DATA"
BAD_SENDER == "BAD_SENDER"
BAD_STATE == "BAD_STATE"
DIVISION_BY_ZERO == "DivisionByZero"
AS_NAT_NEGATIVE == "AsNatOfNegative"

(***************************************************************************)
(* Inputs of the calls.                                                    *)
(***************************************************************************)
\* Who may send a call.  Accounts can call every entry point.  The token
\* ledger sends only the replies of its getBalance / getAllowance /
\* getTotalSupply views, which carry a nat to a contract of type nat: it can
\* reach the entry points whose parameter is a nat.
Accounts == {GOVERNOR_ADDRESS, OTHER_ADDRESS}
Callers == Accounts
NatCallers == Accounts \cup {TOKEN_ADDRESS}
\* addresses handed to the role setters
RoleAddresses == {GOVERNOR_ADDRESS, OTHER_ADDRESS}
\* addresses handed to setHarbingerContract
OracleAddresses == {HARBINGER_ADDRESS, OTHER_ADDRESS}
\* destinations of transfers and sweeps
Destinations == {GOVERNOR_ADDRESS, OTHER_ADDRESS}
\* values handed to setVolatilityTolerance
Tolerances == {0, 5, 100}
Amounts == 0..MaxAmount
Balances == 0..MaxBalance
\* a baker's key hash, for vote and setDelegate
BAKER == "tz1baker"
\* an unrelated token ledger, for the rescue entry points
STRAY_LEDGER_ADDRESS == "KT1stray"

\* (tokens, mutez) pairs of addLiquidity: inputPrice 0, 100, 199, 200, and
\* the zero denominator
LiquidityParams ==
    { [tokens |-> 1000000, mutez |-> 10000],
      [tokens |-> 100000000, mutez |-> 1],
      [tokens |-> 199000000, mutez |-> 1],
      [tokens |-> 200000000, mutez |-> 1],
      [tokens |-> 1000000, mutez |-> 0],
      [tokens |-> 0, mutez |-> 0] }

\* What the Harbinger normalizer reports.  age is sp.now - timestamp, an int:
\* it is negative when the timestamp lies after sp.now.  (The source takes the
\* timestamp as sp.fst(sp.snd(harbingerVwap)); it is read here as the
\* timestamp of the reported pair.)
DataAges == {-1, 10, 60, 61}
NoReport == [some |-> FALSE, age |-> 0, price |-> 0]
Reports == [some : {TRUE}, age : DataAges, price : {100}]
           \cup [some : {TRUE}, age : {10, 61}, price : {0}]
\* the view field of a call that reads no view
NoView == [read |-> FALSE, report |-> NoReport, value |-> NoReport]

\* The token ledger's books, as far as the proxy is concerned: the balance of
\* the proxy and the balance of one other owner.  `reply` tells, when the
\* current call is the ledger's answer to a getBalance query, whose balance
\* was asked for and what the books held then; it is NoReply otherwise.
Owners == {SELF_ADDRESS, OTHER_ADDRESS}
BalanceMaps == [Owners -> Balances]
NoReply == [some |-> FALSE, owner |-> none, balanceOf |-> [o \in Owners |-> 0]]

VARIABLES
    governorContractAddress,
    executorContractAddress,
    tokenContractAddress,
    quipuswapContractAddress,
    harbingerContractAddress,
    volatilityTolerance,
    maxDataDelaySec,
    state,
    sendAllTokens_destination,
    call,
    sweep,
    reply

storage == <<governorContractAddress, executorContractAddress, tokenContractAddress,
             quipuswapContractAddress, harbingerContractAddress, volatilityTolerance,
             maxDataDelaySec, state, sendAllTokens_destination>>

config == <<governorContractAddress, executorContractAddress, tokenContractAddress,
            quipuswapContractAddress, harbingerContractAddress, volatilityTolerance,
            maxDataDelaySec>>

vars == <<governorContractAddress, executorContractAddress, tokenContractAddress,
          quipuswapContractAddress, harbingerContractAddress, volatilityTolerance,
          maxDataDelaySec, state, sendAllTokens_destination, call, sweep, reply>>

abs(x) == IF x < 0 THEN -x ELSE x

\* an emitted operation: sp.transfer(arg, amount, handle) / sp.send
Op(target, entry, amount, arg) ==
    [target |-> target, entry |-> entry, amount |-> amount, arg |-> arg]

\* the record of one call
Call(ep, sender, param, view, result, ops) ==
    [ep |-> ep, sender |-> sender, param |-> param, view |-> view,
     result |-> result, ops |-> ops]

\* number of operations of a sequence that call the entry point `entry`
RECURSIVE CountOps(_, _)
CountOps(ops, entry) ==
    IF ops = <<>> THEN 0
    ELSE (IF Head(ops).entry = entry THEN 1 ELSE 0) + CountOps(Tail(ops), entry)

(***************************************************************************)
(* History of the sweep workflow (not part of the storage): the            *)
(* destination of the last accepted sendAllTokens, the getBalance queries  *)
(* emitted since the last accepted callback, and the transfers emitted by  *)
(* sendAllTokens_callback since the last accepted sendAllTokens.           *)
(***************************************************************************)
SweepAfter(c) ==
    IF c.ep = "sendAllTokens" /\ c.result = OK
    THEN [dest |-> c.param,
          queries |-> sweep.queries + CountOps(c.ops, "getBalance"),
          transfers |-> 0]
    ELSE IF c.ep = "sendAllTokens_callback" /\ c.result = OK
    THEN [dest |-> sweep.dest,
          queries |-> 0,
          transfers |-> sweep.transfers + CountOps(c.ops, "transfer")]
    ELSE [dest |-> sweep.dest,
          queries |-> sweep.queries + (IF c.ep = "sendAllTokens"
                                       THEN CountOps(c.ops, "getBalance") ELSE 0),
          transfers |-> sweep.transfers + (IF c.ep = "sendAllTokens_callback"
                                           THEN CountOps(c.ops, "transfer") ELSE 0)]

\* a call that touches no storage: it only records itself
Records(c) ==
    /\ call' = c
    /\ sweep' = SweepAfter(c)

(***************************************************************************)
(* LiquidityFundContract.__init__ with its default arguments               *)
(***************************************************************************)
Init ==
    /\ governorContractAddress = GOVERNOR_ADDRESS
    /\ executorContractAddress = EXECUTOR_ADDRESS
    /\ tokenContractAddress = TOKEN_ADDRESS
    /\ quipuswapContractAddress = QUIPUSWAP_ADDRESS
    /\ harbingerContractAddress = HARBINGER_ADDRESS
    /\ volatilityTolerance = DEFAULT_VOLATILITY_TOLERANCE
    /\ maxDataDelaySec \in DeployedMaxDataDelaySec
    /\ state = IDLE
    /\ sendAllTokens_destination = none
    /\ call = Call("origination", SELF_ADDRESS, none, NoView, OK, <<>>)
    /\ sweep = [dest |-> none, queries |-> 0, transfers |-> 0]
    /\ reply = NoReply

(***************************************************************************)
(* default                                                                 *)
(***************************************************************************)
default(sender) ==
    /\ Records(Call("default", sender, none, NoView, OK, <<>>))
    /\ UNCHANGED storage

(***************************************************************************)
(* addLiquidity                                                            *)
(***************************************************************************)
\* sp.view("getPrice", harbingerContractAddress, ...): only the Harbinger
\* normalizer serves the view; at any other address the view is sp.none
getPrice(address, report) ==
    IF address = HARBINGER_ADDRESS THEN report ELSE NoReport

\* inputPrice without the division by the scale of a mutez
inputPrice_unscaled(tokensToAdd, mutezToAdd) ==
    tokensToAdd \div mutezToAdd

\* inputPrice = tokensToAdd // mutezToAdd // 1000000
inputPrice(tokensToAdd, mutezToAdd) ==
    (tokensToAdd \div mutezToAdd) \div 1000000

\* (abs(harbingerPrice - inputPrice) // harbingerPrice) * 100
\* the deviation as a true percentage: multiplied by 100 before the division
volatilityDifference_multiplyFirst(harbingerPrice, price) ==
    (abs(harbingerPrice - price) * 100) \div harbingerPrice

volatilityDifference(harbingerPrice, price) ==
    (abs(harbingerPrice - price) \div harbingerPrice) * 100

\* the tolerance check with an inclusive bound
volatilityAccepted_inclusive(tolerance, difference) ==
    tolerance >= difference

\* the sp.verify on the tolerance
volatilityAccepted(tolerance, difference) ==
    tolerance > difference

\* the age check with the comparison turned around
dataAgeAccepted_reversed(dataAge, maxDelay) ==
    dataAge >= maxDelay

\* the sp.verify on the data age
dataAgeAccepted(dataAge, maxDelay) ==
    dataAge <= maxDelay

\* addLiquidity checking its sender against the governor
addLiquidity_result_governor(sender, param, harbingerVwap) ==
    IF sender # governorContractAddress THEN NOT_EXECUTOR
    ELSE IF ~harbingerVwap.some THEN VWAP_VIEW_ERROR
    ELSE IF param.mutez = 0 THEN DIVISION_BY_ZERO
    ELSE IF harbingerVwap.price = 0 THEN DIVISION_BY_ZERO
    ELSE IF ~volatilityAccepted(volatilityTolerance,
                volatilityDifference(harbingerVwap.price,
                                     inputPrice(param.tokens, param.mutez)))
         THEN VOLATILITY
    ELSE IF harbingerVwap.age < 0 THEN AS_NAT_NEGATIVE
    ELSE IF ~dataAgeAccepted(harbingerVwap.age, maxDataDelaySec) THEN STALE_DATA
    ELSE OK

\* addLiquidity computing the input price before it reads the view
addLiquidity_result_amountFirst(sender, param, harbingerVwap) ==
    IF sender # executorContractAddress THEN NOT_EXECUTOR
    ELSE IF param.mutez = 0 THEN DIVISION_BY_ZERO
    ELSE IF ~harbingerVwap.some THEN VWAP_VIEW_ERROR
    ELSE IF harbingerVwap.price = 0 THEN DIVISION_BY_ZERO
    ELSE IF ~volatilityAccepted(volatilityTolerance,
                volatilityDifference(harbingerVwap.price,
                                     inputPrice(param.tokens, param.mutez)))
         THEN VOLATILITY
    ELSE IF harbingerVwap.age < 0 THEN AS_NAT_NEGATIVE
    ELSE IF ~dataAgeAccepted(harbingerVwap.age, maxDataDelaySec) THEN STALE_DATA
    ELSE OK

\* the first failing instruction of addLiquidity, or OK
addLiquidity_result(sender, param, harbingerVwap) ==
    IF sender # executorContractAddress THEN NOT_EXECUTOR
    ELSE IF ~harbingerVwap.some THEN VWAP_VIEW_ERROR
    ELSE IF param.mutez = 0 THEN DIVISION_BY_ZERO
    ELSE IF harbingerVwap.price = 0 THEN DIVISION_BY_ZERO
    ELSE IF ~volatilityAccepted(volatilityTolerance,
                volatilityDifference(harbingerVwap.price,
                                     inputPrice(param.tokens, param.mutez)))
         THEN VOLATILITY
    ELSE IF harbingerVwap.age < 0 THEN AS_NAT_NEGATIVE
    ELSE IF ~dataAgeAccepted(harbingerVwap.age, maxDataDelaySec) THEN STALE_DATA
    ELSE OK

\* approve on the token contract, then investLiquidity on Quipuswap
\* the two operations of addLiquidity in the opposite order
addLiquidity_ops_investFirst(param) ==
    << Op(quipuswapContractAddress, "investLiquidity", param.mutez, <<param.tokens>>),
       Op(tokenContractAddress, "approve", 0, <<quipuswapContractAddress, param.tokens>>) >>

addLiquidity_ops(param) ==
    << Op(tokenContractAddress, "approve", 0, <<quipuswapContractAddress, param.tokens>>),
       Op(quipuswapContractAddress, "investLiquidity", param.mutez, <<param.tokens>>) >>

\* the view is read once the sender check has passed, before anything else
addLiquidity_viewRead(sender) ==
    sender = executorContractAddress

addLiquidity(sender, param, report) ==
    LET harbingerVwap == getPrice(harbingerContractAddress, report)
        r == addLiquidity_result(sender, param, harbingerVwap)
    IN /\ Records(Call("addLiquidity", sender, param,
                       [read |-> addLiquidity_viewRead(sender), report |-> report,
                        value |-> harbingerVwap],
                       r, IF r = OK THEN addLiquidity_ops(param) ELSE <<>>))
       /\ UNCHANGED storage

(***************************************************************************)
(* sendAllTokens and its callback                                          *)
(***************************************************************************)
\* sendAllTokens without the check of the state
sendAllTokens_result_anyState(sender) ==
    IF sender # governorContractAddress THEN NOT_GOVERNOR
    ELSE OK

sendAllTokens_result(sender) ==
    IF sender # governorContractAddress THEN NOT_GOVERNOR
    ELSE IF state # IDLE THEN BAD_STATE
    ELSE OK

\* getBalance(self, self%sendAllTokens_callback) on the token contract
sendAllTokens_ops ==
    << Op(tokenContractAddress, "getBalance", 0,
          <<SELF_ADDRESS, "sendAllTokens_callback">>) >>

sendAllTokens(sender, destination) ==
    LET r == sendAllTokens_result(sender)
    IN /\ Records(Call("sendAllTokens", sender, destination, NoView, r,
                       IF r = OK THEN sendAllTokens_ops ELSE <<>>))
       /\ IF r = OK
          THEN /\ state' = WAITING_FOR_TOKEN_BALANCE
               /\ sendAllTokens_destination' = destination
          ELSE UNCHANGED <<state, sendAllTokens_destination>>
       /\ UNCHANGED config

\* the callback without the check of its sender
sendAllTokens_callback_result_anySender(sender) ==
    IF state # WAITING_FOR_TOKEN_BALANCE THEN BAD_STATE
    ELSE IF sendAllTokens_destination = none THEN "OpenSomeOfNone"
    ELSE OK

\* the callback without the check of the state
sendAllTokens_callback_result_anyState(sender) ==
    IF sender # tokenContractAddress THEN BAD_SENDER
    ELSE IF sendAllTokens_destination = none THEN "OpenSomeOfNone"
    ELSE OK

\* the callback open to the governor as well as to the token contract
sendAllTokens_callback_result_governorToo(sender) ==
    IF sender # tokenContractAddress /\ sender # governorContractAddress THEN BAD_SENDER
    ELSE IF state # WAITING_FOR_TOKEN_BALANCE THEN BAD_STATE
    ELSE IF sendAllTokens_destination = none THEN "OpenSomeOfNone"
    ELSE OK

\* the first failing instruction of sendAllTokens_callback, or OK
sendAllTokens_callback_result(sender) ==
    IF sender # tokenContractAddress THEN BAD_SENDER
    ELSE IF state # WAITING_FOR_TOKEN_BALANCE THEN BAD_STATE
    ELSE IF sendAllTokens_destination = none THEN "OpenSomeOfNone"
    ELSE OK

\* the callback's transfer sent to the governor
sendAllTokens_callback_ops_toGovernor(tokenBalance) ==
    << Op(tokenContractAddress, "transfer", 0,
          [from_ |-> SELF_ADDRESS, to_ |-> governorContractAddress,
           value |-> tokenBalance]) >>

\* transfer(from = self, to = destination, value = tokenBalance)
sendAllTokens_callback_ops(tokenBalance) ==
    << Op(tokenContractAddress, "transfer", 0,
          [from_ |-> SELF_ADDRESS, to_ |-> sendAllTokens_destination,
           value |-> tokenBalance]) >>

\* the callback resetting the state but not the saved destination
sendAllTokens_callback_keepsDestination(sender, tokenBalance) ==
    LET r == sendAllTokens_callback_result(sender)
    IN /\ Records(Call("sendAllTokens_callback", sender, tokenBalance, NoView, r,
                       IF r = OK THEN sendAllTokens_callback_ops(tokenBalance) ELSE <<>>))
       /\ IF r = OK
          THEN /\ state' = IDLE
               /\ UNCHANGED sendAllTokens_destination
          ELSE UNCHANGED <<state, sendAllTokens_destination>>
       /\ UNCHANGED config

\* the callback that emits the transfer but does not reset the state
sendAllTokens_callback_keepsState(sender, tokenBalance) ==
    LET r == sendAllTokens_callback_result(sender)
    IN /\ Records(Call("sendAllTokens_callback", sender, tokenBalance, NoView, r,
                       IF r = OK THEN sendAllTokens_callback_ops(tokenBalance) ELSE <<>>))
       /\ UNCHANGED <<state, sendAllTokens_destination>>
       /\ UNCHANGED config

sendAllTokens_callback(sender, tokenBalance) ==
    LET r == sendAllTokens_callback_result(sender)
    IN /\ Records(Call("sendAllTokens_callback", sender, tokenBalance, NoView, r,
                       IF r = OK THEN sendAllTokens_callback_ops(tokenBalance) ELSE <<>>))
       /\ IF r = OK
          THEN /\ state' = IDLE
               /\ sendAllTokens_destination' = none
          ELSE UNCHANGED <<state, sendAllTokens_destination>>
       /\ UNCHANGED config

(***************************************************************************)
(* Entry points guarded by one sender check that emit fixed operations     *)
(***************************************************************************)
\* sp.verify(sp.sender == <role address>, message = <error>)
verifySender(sender, role, error) ==
    IF sender = role THEN OK ELSE error

\* a call that checks its sender, emits ops when accepted and writes nothing
Forward(ep, sender, param, r, ops) ==
    /\ Records(Call(ep, sender, param, NoView, r, IF r = OK THEN ops ELSE <<>>))
    /\ UNCHANGED storage

removeLiquidity(sender, param) ==
    Forward("removeLiquidity", sender, param,
            verifySender(sender, governorContractAddress, NOT_GOVERNOR),
            << Op(quipuswapContractAddress, "divestLiquidity", 0,
                  <<param.min_mutez_out, param.min_tokens_out, param.lp_to_remove>>) >>)

claimRewards(sender) ==
    Forward("claimRewards", sender, none,
            verifySender(sender, governorContractAddress, NOT_GOVERNOR),
            << Op(quipuswapContractAddress, "withdrawProfit", 0, <<SELF_ADDRESS>>) >>)

vote(sender, param) ==
    Forward("vote", sender, param,
            verifySender(sender, governorContractAddress, NOT_GOVERNOR),
            << Op(quipuswapContractAddress, "vote", 0,
                  <<param.candidate, param.value, param.voter>>) >>)

\* veto checking its sender against the governor
veto_governor(sender, param) ==
    Forward("veto", sender, param,
            verifySender(sender, governorContractAddress, NOT_GOVERNOR),
            << Op(quipuswapContractAddress, "veto", 0, <<param.value, param.voter>>) >>)

\* the executor's entry point; its error message is NOT_GOVERNOR in the source
veto(sender, param) ==
    Forward("veto", sender, param,
            verifySender(sender, executorContractAddress, NOT_GOVERNOR),
            << Op(quipuswapContractAddress, "veto", 0, <<param.value, param.voter>>) >>)

setDelegate(sender, newDelegate) ==
    Forward("setDelegate", sender, newDelegate,
            verifySender(sender, governorContractAddress, NOT_ADMIN),
            << Op(SELF_ADDRESS, "set_delegate", 0, <<newDelegate>>) >>)

\* param = (amount, destination); sp.send(destination, amount)
send(sender, param) ==
    Forward("send", sender, param,
            verifySender(sender, governorContractAddress, NOT_GOVERNOR),
            << Op(param[2], "default", param[1], <<>>) >>)

\* sp.send(destination, sp.balance); balance is the proxy's XTZ balance
sendAll(sender, destination, balance) ==
    Forward("sendAll", sender, destination,
            verifySender(sender, governorContractAddress, NOT_GOVERNOR),
            << Op(destination, "default", balance, <<>>) >>)

\* param = (amount, destination)
sendTokens(sender, param) ==
    Forward("sendTokens", sender, param,
            verifySender(sender, governorContractAddress, NOT_GOVERNOR),
            << Op(tokenContractAddress, "transfer", 0,
                  [from_ |-> SELF_ADDRESS, to_ |-> param[2], value |-> param[1]]) >>)

rescueFA12(sender, params) ==
    Forward("rescueFA12", sender, params,
            verifySender(sender, governorContractAddress, NOT_GOVERNOR),
            << Op(params.tokenContractAddress, "transfer", 0,
                  [from_ |-> SELF_ADDRESS, to_ |-> params.destination,
                   value |-> params.amount]) >>)

rescueFA2(sender, params) ==
    Forward("rescueFA2", sender, params,
            verifySender(sender, governorContractAddress, NOT_GOVERNOR),
            << Op(params.tokenContractAddress, "transfer", 0,
                  << [from_ |-> SELF_ADDRESS,
                      txs |-> << [amount |-> params.amount,
                                  to_ |-> params.destination,
                                  token_id |-> params.tokenId] >>] >>) >>)

(***************************************************************************)
(* Governor-only setters                                                   *)
(***************************************************************************)
\* setGovernorContract that also abandons a sweep under way
setGovernorContract_resetsSweep(sender, newGovernorContractAddress) ==
    LET r == verifySender(sender, governorContractAddress, NOT_GOVERNOR)
    IN /\ Records(Call("setGovernorContract", sender, newGovernorContractAddress,
                       NoView, r, <<>>))
       /\ governorContractAddress' =
             IF r = OK THEN newGovernorContractAddress ELSE governorContractAddress
       /\ state' = IDLE
       /\ sendAllTokens_destination' = none
       /\ UNCHANGED <<executorContractAddress, tokenContractAddress,
                      quipuswapContractAddress, harbingerContractAddress,
                      volatilityTolerance, maxDataDelaySec>>

setGovernorContract(sender, newGovernorContractAddress) ==
    LET r == verifySender(sender, governorContractAddress, NOT_GOVERNOR)
    IN /\ Records(Call("setGovernorContract", sender, newGovernorContractAddress,
                       NoView, r, <<>>))
       /\ governorContractAddress' =
             IF r = OK THEN newGovernorContractAddress ELSE governorContractAddress
       /\ UNCHANGED <<executorContractAddress, tokenContractAddress,
                      quipuswapContractAddress, harbingerContractAddress,
                      volatilityTolerance, maxDataDelaySec, state,
                      sendAllTokens_destination>>

\* setExecutorContract that hands the governor's role over instead
setExecutorContract_writesGovernor(sender, newExecutorContractAddress) ==
    LET r == verifySender(sender, governorContractAddress, NOT_GOVERNOR)
    IN /\ Records(Call("setExecutorContract", sender, newExecutorContractAddress,
                       NoView, r, <<>>))
       /\ governorContractAddress' =
             IF r = OK THEN newExecutorContractAddress ELSE governorContractAddress
       /\ UNCHANGED <<executorContractAddress, tokenContractAddress,
                      quipuswapContractAddress, harbingerContractAddress,
                      volatilityTolerance, maxDataDelaySec, state,
                      sendAllTokens_destination>>

setExecutorContract(sender, newExecutorContractAddress) ==
    LET r == verifySender(sender, governorContractAddress, NOT_GOVERNOR)
    IN /\ Records(Call("setExecutorContract", sender, newExecutorContractAddress,
                       NoView, r, <<>>))
       /\ executorContractAddress' =
             IF r = OK THEN newExecutorContractAddress ELSE executorContractAddress
       /\ UNCHANGED <<governorContractAddress, tokenContractAddress,
                      quipuswapContractAddress, harbingerContractAddress,
                      volatilityTolerance, maxDataDelaySec, state,
                      sendAllTokens_destination>>

setVolatilityTolerance(sender, newVolatilityTolerance) ==
    LET r == verifySender(sender, governorContractAddress, NOT_GOVERNOR)
    IN /\ Records(Call("setVolatilityTolerance", sender, newVolatilityTolerance,
                       NoView, r, <<>>))
       /\ volatilityTolerance' =
             IF r = OK THEN newVolatilityTolerance ELSE volatilityTolerance
       /\ UNCHANGED <<governorContractAddress, executorContractAddress,
                      tokenContractAddress, quipuswapContractAddress,
                      harbingerContractAddress, maxDataDelaySec, state,
                      sendAllTokens_destination>>

\* setHarbingerContract that replaces the token contract instead
setHarbingerContract_writesToken(sender, newHarbingerContractAddress) ==
    LET r == verifySender(sender, governorContractAddress, NOT_GOVERNOR)
    IN /\ Records(Call("setHarbingerContract", sender, newHarbingerContractAddress,
                       NoView, r, <<>>))
       /\ tokenContractAddress' =
             IF r = OK THEN newHarbingerContractAddress ELSE tokenContractAddress
       /\ UNCHANGED <<governorContractAddress, executorContractAddress,
                      harbingerContractAddress, quipuswapContractAddress,
                      volatilityTolerance, maxDataDelaySec, state,
                      sendAllTokens_destination>>

setHarbingerContract(sender, newHarbingerContractAddress) ==
    LET r == verifySender(sender, governorContractAddress, NOT_GOVERNOR)
    IN /\ Records(Call("setHarbingerContract", sender, newHarbingerContractAddress,
                       NoView, r, <<>>))
       /\ harbingerContractAddress' =
             IF r = OK THEN newHarbingerContractAddress ELSE harbingerContractAddress
       /\ UNCHANGED <<governorContractAddress, executorContractAddress,
                      tokenContractAddress, quipuswapContractAddress,
                      volatilityTolerance, maxDataDelaySec, state,
                      sendAllTokens_destination>>

(***************************************************************************)
(* The token ledger's getBalance(owner, callback)                          *)
(***************************************************************************)
\* Anybody may ask the ledger for the balance of any owner and name the
\* proxy's sendAllTokens_callback as the target of the answer (sendAllTokens
\* itself asks for the proxy's balance).  The ledger answers by calling the
\* target with the balance of that owner.
getBalance(owner, balanceOf) ==
    /\ sendAllTokens_callback(TOKEN_ADDRESS, balanceOf[owner])
    /\ reply' = [some |-> TRUE, owner |-> owner, balanceOf |-> balanceOf]

(***************************************************************************)
(* Next-state relation                                                     *)
(***************************************************************************)
\* a call of an entry point by an account (or, for a nat, by the ledger
\* answering another of its views) is not an answer to getBalance
Next ==
    \/ \E sender \in Callers : default(sender) /\ reply' = NoReply
    \/ \E sender \in Callers, param \in LiquidityParams, report \in Reports :
          addLiquidity(sender, param, report) /\ reply' = NoReply
    \/ \E sender \in Callers,
          param \in [min_mutez_out : {0}, min_tokens_out : {1}, lp_to_remove : Amounts] :
          removeLiquidity(sender, param) /\ reply' = NoReply
    \/ \E sender \in Callers : claimRewards(sender) /\ reply' = NoReply
    \/ \E sender \in Callers,
          param \in [candidate : {BAKER}, value : Amounts, voter : {OTHER_ADDRESS}] :
          vote(sender, param) /\ reply' = NoReply
    \/ \E sender \in Callers, param \in [value : Amounts, voter : {OTHER_ADDRESS}] :
          veto(sender, param) /\ reply' = NoReply
    \/ \E sender \in Callers, newDelegate \in {none, BAKER} :
          setDelegate(sender, newDelegate) /\ reply' = NoReply
    \/ \E sender \in Callers, param \in Amounts \X {OTHER_ADDRESS} : send(sender, param) /\ reply' = NoReply
    \/ \E sender \in Callers, destination \in {OTHER_ADDRESS}, balance \in Amounts :
          sendAll(sender, destination, balance) /\ reply' = NoReply
    \/ \E sender \in Callers, param \in Amounts \X {OTHER_ADDRESS} :
          sendTokens(sender, param) /\ reply' = NoReply
    \/ \E sender \in Callers, destination \in Destinations :
          sendAllTokens(sender, destination) /\ reply' = NoReply
    \/ \E sender \in NatCallers, tokenBalance \in Balances :
          sendAllTokens_callback(sender, tokenBalance) /\ reply' = NoReply
    \/ \E sender \in Callers,
          params \in [tokenContractAddress : {STRAY_LEDGER_ADDRESS}, amount : Amounts,
                      destination : {OTHER_ADDRESS}] :
          rescueFA12(sender, params) /\ reply' = NoReply
    \/ \E sender \in Callers,
          params \in [tokenContractAddress : {STRAY_LEDGER_ADDRESS}, tokenId : {0},
                      amount : Amounts, destination : {OTHER_ADDRESS}] :
          rescueFA2(sender, params) /\ reply' = NoReply
    \/ \E sender \in Callers, a \in RoleAddresses : setGovernorContract(sender, a) /\ reply' = NoReply
    \/ \E sender \in Callers, a \in RoleAddresses : setExecutorContract(sender, a) /\ reply' = NoReply
    \/ \E sender \in NatCallers, t \in Tolerances : setVolatilityTolerance(sender, t) /\ reply' = NoReply
    \/ \E sender \in Callers, a \in OracleAddresses : setHarbingerContract(sender, a) /\ reply' = NoReply
    \/ \E owner \in Owners, balanceOf \in BalanceMaps : getBalance(owner, balanceOf)

\* the ledger's answer to a query the proxy itself has emitted and that has
\* not been answered yet: the proxy's own balance
getBalance_reply ==
    \E balanceOf \in BalanceMaps :
        /\ sweep.queries > 0
        /\ getBalance(SELF_ADDRESS, balanceOf)

Spec == Init /\ [][Next]_vars

\* The calls that bear on the completion of a sweep: the sweep's two entry
\* points, the ledger's answers, the hand-over of the governor's role (it
\* decides who may start a sweep), and two entry points that touch neither
\* (one of them talks to the same ledger).
SweepNext ==
    \/ \E sender \in Callers : default(sender) /\ reply' = NoReply
    \/ \E sender \in Callers, param \in Amounts \X {OTHER_ADDRESS} :
          sendTokens(sender, param) /\ reply' = NoReply
    \/ \E sender \in Callers, destination \in Destinations :
          sendAllTokens(sender, destination) /\ reply' = NoReply
    \/ \E sender \in NatCallers, tokenBalance \in Balances :
          sendAllTokens_callback(sender, tokenBalance) /\ reply' = NoReply
    \/ \E sender \in Callers, a \in RoleAddresses :
          setGovernorContract(sender, a) /\ reply' = NoReply
    \/ \E owner \in Owners, balanceOf \in BalanceMaps : getBalance(owner, balanceOf)

\* the ledger eventually answers each balance query it receives
FairSpec == Init /\ [][SweepNext]_vars /\ WF_vars(getBalance_reply)

(***************************************************************************)
(* Properties of the sweep state machine                                   *)
(***************************************************************************)

\* C1: in every reachable state sendAllTokens_destination is Some exactly when
\* state = WAITING_FOR_TOKEN_BALANCE and none exactly when state = IDLE.
C1_DestinationIffWaiting ==
    /\ state \in {IDLE, WAITING_FOR_TOKEN_BALANCE}
    /\ (sendAllTokens_destination # none) <=> (state = WAITING_FOR_TOKEN_BALANCE)
    /\ (sendAllTokens_destination = none) <=> (state = IDLE)

\* a sweep has been requested and then completed: both phases were visited
C1_Witness ==
    /\ call.ep = "sendAllTokens_callback"
    /\ call.result = OK
    /\ state = IDLE
    /\ sendAllTokens_destination = none

\* C2: while a sweep is outstanding every further sendAllTokens is rejected
\* (BAD_STATE for the governor), emits no balance query and leaves the pending
\* destination equal to the destination of the accepted call; at most one
\* balance query is emitted between two accepted callbacks.
C2_SecondSweepRejected ==
    /\ [][ (state = WAITING_FOR_TOKEN_BALANCE /\ call'.ep = "sendAllTokens")
           => /\ call'.result \in {NOT_GOVERNOR, BAD_STATE}
              /\ (call'.sender = governorContractAddress => call'.result = BAD_STATE)
              /\ call'.ops = <<>>
              /\ state' = WAITING_FOR_TOKEN_BALANCE
              /\ sendAllTokens_destination' = sendAllTokens_destination
              /\ sendAllTokens_destination' = sweep.dest
              /\ sweep'.queries = sweep.queries ]_vars
    /\ [](sweep.queries <= 1)
    /\ [](state = WAITING_FOR_TOKEN_BALANCE => sweep.queries = 1)

\* the governor asks for a sweep to another destination while one is pending
C2_Witness ==
    /\ call.ep = "sendAllTokens"
    /\ call.sender = governorContractAddress
    /\ call.result = BAD_STATE
    /\ state = WAITING_FOR_TOKEN_BALANCE
    /\ call.param # sendAllTokens_destination
    /\ sweep.queries = 1

\* C3: sendAllTokens_callback sent by anyone but the token contract fails with
\* BAD_SENDER in either phase, changes neither state nor
\* sendAllTokens_destination and emits nothing.
C3_CallbackSenderChecked ==
    [][ (call'.ep = "sendAllTokens_callback" /\ call'.sender # tokenContractAddress)
        => /\ call'.result = BAD_SENDER
           /\ call'.ops = <<>>
           /\ state' = state
           /\ sendAllTokens_destination' = sendAllTokens_destination ]_vars

\* the governor itself calls the callback while a sweep is pending
C3_Witness ==
    /\ call.ep = "sendAllTokens_callback"
    /\ call.sender = governorContractAddress
    /\ call.sender # tokenContractAddress
    /\ call.result = BAD_SENDER
    /\ state = WAITING_FOR_TOKEN_BALANCE

\* C4: an accepted callback leaves state = IDLE, no destination, and has
\* emitted exactly one operation, the transfer from the proxy to the
\* destination of the accepted sendAllTokens of the reported balance, the only
\* transfer of that sweep; an accepted sendAllTokens emits the balance query
\* alone.
C4_SweepRoundTrip ==
    /\ (call.ep = "sendAllTokens_callback" /\ call.result = OK)
       => /\ state = IDLE
          /\ sendAllTokens_destination = none
          /\ Len(call.ops) = 1
          /\ call.ops[1].entry = "transfer"
          /\ call.ops[1].target = tokenContractAddress
          /\ call.ops[1].arg.from_ = SELF_ADDRESS
          /\ call.ops[1].arg.to_ = sweep.dest
          /\ call.ops[1].arg.value = call.param
          /\ sweep.transfers = 1
    /\ (call.ep = "sendAllTokens" /\ call.result = OK)
       => /\ Len(call.ops) = 1
          /\ call.ops[1].entry = "getBalance"
          /\ call.ops[1].target = tokenContractAddress
          /\ sweep.dest = call.param
          /\ sweep.transfers = 0

\* a sweep to an address that is not the governor completed with a balance > 0
C4_Witness ==
    /\ call.ep = "sendAllTokens_callback"
    /\ call.result = OK
    /\ call.param > 0
    /\ sweep.dest # none
    /\ sweep.dest # governorContractAddress
    /\ sweep.transfers = 1

\* C5: a callback from the token contract while state = IDLE fails with
\* BAD_STATE, emits nothing and changes nothing; one accepted sendAllTokens
\* never yields more than one transfer.
C5_SpuriousReplyRejected ==
    /\ [][ (call'.ep = "sendAllTokens_callback" /\ call'.sender = tokenContractAddress
            /\ state = IDLE)
           => /\ call'.result = BAD_STATE
              /\ call'.ops = <<>>
              /\ state' = IDLE
              /\ sendAllTokens_destination' = sendAllTokens_destination
              /\ sweep'.transfers = sweep.transfers ]_vars
    /\ [](sweep.transfers <= 1)

\* a second reply arrives after the sweep has completed
C5_Witness ==
    /\ call.ep = "sendAllTokens_callback"
    /\ call.sender = tokenContractAddress
    /\ call.result = BAD_STATE
    /\ state = IDLE
    /\ sweep.transfers = 1

(***************************************************************************)
(* Properties of addLiquidity                                              *)
(***************************************************************************)

\* C6: addLiquidity sent by anyone but the executor fails with NOT_EXECUTOR
\* and emits nothing, whatever the parameters and the oracle report are.
C6_OnlyExecutorAddsLiquidity ==
    [][ (call'.ep = "addLiquidity" /\ call'.sender # executorContractAddress)
        => /\ call'.result = NOT_EXECUTOR
           /\ call'.ops = <<>>
           /\ ~call'.view.read ]_vars

\* the governor, who is not the executor, sends a deposit that would pass
\* every price check
C6_Witness ==
    /\ call.ep = "addLiquidity"
    /\ call.sender = governorContractAddress
    /\ call.sender # executorContractAddress
    /\ call.result = NOT_EXECUTOR
    /\ call.param = [tokens |-> 100000000, mutez |-> 1]
    /\ call.view.report = [some |-> TRUE, age |-> 10, price |-> 100]
    /\ harbingerContractAddress = HARBINGER_ADDRESS
    /\ volatilityTolerance = 5

\* the executor's addLiquidity call with both amounts positive and the
\* oracle view resolved
ExecutorDeposit ==
    /\ call.ep = "addLiquidity"
    /\ call.sender = executorContractAddress
    /\ call.view.value.some
    /\ call.param.mutez > 0

\* C7 as stated: for tokens > 0, baseUnits > 0 and every oracle price the
\* executor's call succeeds iff dataAge <= maxDataDelaySec and
\* deviationPct < volatilityTolerance, and fails otherwise with STALE_DATA (age
\* bound) or VOLATILITY (deviation bound).
C7_Original ==
    (ExecutorDeposit /\ call.param.tokens > 0)
    => LET p == call.view.value.price
           age == call.view.value.age
           ip == (call.param.tokens \div call.param.mutez) \div 1000000
       IN /\ call.result \in {OK, STALE_DATA, VOLATILITY}
          /\ (p > 0) => ((call.result = OK)
                           <=> (/\ age <= maxDataDelaySec
                                /\ (abs(p - ip) \div p) * 100 < volatilityTolerance))
          /\ (call.result = STALE_DATA) => (age > maxDataDelaySec)
          /\ (call.result = VOLATILITY)
                => (p > 0 /\ (abs(p - ip) \div p) * 100 >= volatilityTolerance)

\* C7 (amended): for tokens > 0, baseUnits > 0, an oracle price p > 0 and a
\* timestamp not after now, the executor's call succeeds iff
\* dataAge <= maxDataDelaySec and deviationPct < volatilityTolerance; it fails
\* with VOLATILITY whenever deviationPct >= volatilityTolerance and with
\* STALE_DATA when the deviation passes and the age exceeds the bound.  With
\* p = 0 the call fails on the division by the price; with a timestamp after
\* now it fails on the deviation or else on sp.as_nat.
C7_SucceedsIffFreshAndClose ==
    (ExecutorDeposit /\ call.param.tokens > 0)
    => LET p == call.view.value.price
           age == call.view.value.age
           ip == (call.param.tokens \div call.param.mutez) \div 1000000
           tol == volatilityTolerance
       IN /\ (p > 0 /\ age >= 0)
             => LET dev == (abs(p - ip) \div p) * 100
                IN /\ (call.result = OK) <=> (age <= maxDataDelaySec /\ dev < tol)
                   /\ (dev >= tol) => (call.result = VOLATILITY)
                   /\ (dev < tol /\ age > maxDataDelaySec) => (call.result = STALE_DATA)
          /\ (p = 0) => (call.result = DIVISION_BY_ZERO)
          /\ (p > 0 /\ age < 0)
             => call.result = (IF (abs(p - ip) \div p) * 100 >= tol
                               THEN VOLATILITY ELSE AS_NAT_NEGATIVE)
          /\ (call.result = OK) <=> (call.ops # <<>>)

\* a deposit accepted with the oldest data still allowed
C7_Witness ==
    /\ ExecutorDeposit
    /\ call.param.tokens > 0
    /\ call.result = OK
    /\ call.view.value.age = maxDataDelaySec
    /\ call.view.value.price > 0

\* the deposit scenario of C8 and C9, with the given parameter and data age
Scenario(param, age) ==
    /\ call.ep = "addLiquidity"
    /\ call.sender = executorContractAddress
    /\ volatilityTolerance = 5
    /\ maxDataDelaySec = 60
    /\ call.view.value = [some |-> TRUE, age |-> age, price |-> 100]
    /\ call.param = param

\* C8 as stated: tolerance 5, max age 60, price 100 aged 10 s,
\* addLiquidity(tokens = 1_000_000, baseUnits = 10_000) computes
\* inputPrice = 100 and deviation = 0 and succeeds.
C8_Original ==
    Scenario([tokens |-> 1000000, mutez |-> 10000], 10)
    => /\ inputPrice(call.param.tokens, call.param.mutez) = 100
       /\ volatilityDifference(100, inputPrice(call.param.tokens, call.param.mutez)) = 0
       /\ call.result = OK

\* C8 (amended): in that scenario addLiquidity(tokens = 1_000_000,
\* baseUnits = 10_000) computes inputPrice = 1_000_000 // 10_000 // 10^6 = 0
\* and deviation = 100 and fails with VOLATILITY, emitting nothing; the deposit
\* of price 100, addLiquidity(tokens = 100_000_000, baseUnits = 1), computes
\* inputPrice = 100 and deviation = 0 and succeeds with approve then
\* investLiquidity.
C8_ScenarioOutcome ==
    /\ Scenario([tokens |-> 1000000, mutez |-> 10000], 10)
       => /\ inputPrice(call.param.tokens, call.param.mutez) = 0
          /\ volatilityDifference(100, inputPrice(call.param.tokens, call.param.mutez)) = 100
          /\ call.result = VOLATILITY
          /\ call.ops = <<>>
    /\ Scenario([tokens |-> 100000000, mutez |-> 1], 10)
       => /\ inputPrice(call.param.tokens, call.param.mutez) = 100
          /\ volatilityDifference(100, inputPrice(call.param.tokens, call.param.mutez)) = 0
          /\ call.result = OK
          /\ Len(call.ops) = 2
          /\ call.ops[1].entry = "approve"
          /\ call.ops[1].arg = <<quipuswapContractAddress, 100000000>>
          /\ call.ops[2].entry = "investLiquidity"
          /\ call.ops[2].amount = 1

\* the scenario as given in the claim has been run
C8_Witness ==
    /\ Scenario([tokens |-> 1000000, mutez |-> 10000], 10)
    /\ call.result = VOLATILITY

C10_Original ==
    (call.ep = "addLiquidity" /\ call.sender = executorContractAddress
     /\ call.param.mutez = 0)
    => /\ call.result = DIVISION_BY_ZERO
       /\ ~call.view.read
       /\ call.ops = <<>>

\* C10 (amended): the executor's addLiquidity with baseUnits = 0 fails and
\* emits nothing for every tokens value and every oracle state; the oracle
\* view is read first, so the error is the division error whenever the view
\* resolves (before the deviation and age checks, whatever price and age it
\* reports) and VWAP_VIEW_ERROR when it does not.
C10_ZeroBaseUnitsFails ==
    (call.ep = "addLiquidity" /\ call.sender = executorContractAddress
     /\ call.param.mutez = 0)
    => /\ call.view.read
       /\ call.ops = <<>>
       /\ call.view.value.some => (call.result = DIVISION_BY_ZERO)
       /\ (~call.view.value.some) => (call.result = VWAP_VIEW_ERROR)

\* zero base units against a stale report of price 0
C10_Witness ==
    /\ call.ep = "addLiquidity"
    /\ call.sender = executorContractAddress
    /\ call.param = [tokens |-> 0, mutez |-> 0]
    /\ call.view.value = [some |-> TRUE, age |-> 61, price |-> 0]
    /\ call.result = DIVISION_BY_ZERO


(***************************************************************************)
(* Authorization                                                           *)
(***************************************************************************)

\* the entry points C11 names as the governor's
GovernorOnly ==
    {"removeLiquidity", "claimRewards", "vote", "send", "sendAll", "sendTokens",
     "sendAllTokens", "rescueFA12", "rescueFA2", "setGovernorContract",
     "setExecutorContract", "setVolatilityTolerance", "setHarbingerContract"}

\* C11: each of these entry points checks its sender against the address
\* stored at the time of the call: the governor's entry points fail for every
\* sender but the governor, veto fails for every sender but the executor, and
\* a failing call changes no storage and emits nothing; the authorized sender
\* passes (sendAllTokens then still checks the state).
C11_OneAuthorizedCaller ==
    [][ /\ (call'.ep \in GovernorOnly /\ call'.sender # governorContractAddress)
           => /\ call'.result = NOT_GOVERNOR
              /\ call'.ops = <<>>
              /\ UNCHANGED storage
        /\ (call'.ep = "veto" /\ call'.sender # executorContractAddress)
           => /\ call'.result # OK
              /\ call'.ops = <<>>
              /\ UNCHANGED storage
        /\ (call'.ep \in GovernorOnly \ {"sendAllTokens"}
            /\ call'.sender = governorContractAddress)
           => call'.result = OK
        /\ (call'.ep = "sendAllTokens" /\ call'.sender = governorContractAddress)
           => call'.result \in {OK, BAD_STATE}
        /\ (call'.ep = "veto" /\ call'.sender = executorContractAddress)
           => call'.result = OK
        /\ (call'.ep \in GovernorOnly \cup {"veto"} /\ call'.result # OK)
           => (call'.ops = <<>> /\ UNCHANGED storage) ]_vars

\* the governor, who is not the executor, is turned down by veto
C11_Witness ==
    /\ call.ep = "veto"
    /\ call.sender = governorContractAddress
    /\ call.sender # executorContractAddress
    /\ call.result # OK
    /\ call.ops = <<>>

\* C12: while state = WAITING_FOR_TOKEN_BALANCE, any call other than a
\* callback accepted from the token contract leaves the state and the saved
\* destination as they are, and every sendAllTokens is rejected.
C12_WaitingUntilLedgerReplies ==
    [][ (state = WAITING_FOR_TOKEN_BALANCE)
        => /\ ~(call'.ep = "sendAllTokens_callback"
                /\ call'.sender = tokenContractAddress /\ call'.result = OK)
              => /\ state' = WAITING_FOR_TOKEN_BALANCE
                 /\ sendAllTokens_destination' = sendAllTokens_destination
           /\ (call'.ep = "sendAllTokens") => (call'.result # OK) ]_vars

\* the governor has handed the role over during the wait and the new
\* governor's sweep request is rejected, the first destination still saved
C12_Witness ==
    /\ state = WAITING_FOR_TOKEN_BALANCE
    /\ governorContractAddress # GOVERNOR_ADDRESS
    /\ call.ep = "sendAllTokens"
    /\ call.sender = governorContractAddress
    /\ call.result = BAD_STATE
    /\ sendAllTokens_destination = sweep.dest


(***************************************************************************)
(* The sweep and the ledger                                                *)
(***************************************************************************)

\* C13: when the ledger's answer completes a sweep, the amount transferred is
\* the proxy's own balance on the ledger's books and the destination is the
\* one the governor gave, whoever asked the ledger and for whichever owner.
C13_SweepsOwnBalance ==
    (call.ep = "sendAllTokens_callback" /\ call.result = OK /\ reply.some)
    => /\ call.ops[1].arg.to_ = sweep.dest
       /\ call.ops[1].arg.value = reply.balanceOf[SELF_ADDRESS]


(***************************************************************************)
(* Operations of addLiquidity; the frame of the sweep state                *)
(***************************************************************************)

\* C14: a successful addLiquidity emits exactly two operations, in this
\* order: approve(pool, tokens) to the token ledger with no mutez, then
\* investLiquidity(tokens) to the pool with param.mutez mutez; a failed one
\* emits none.
C14_ApproveThenInvest ==
    (call.ep = "addLiquidity")
    => IF call.result = OK
       THEN /\ Len(call.ops) = 2
            /\ call.ops[1].target = tokenContractAddress
            /\ call.ops[1].entry = "approve"
            /\ call.ops[1].amount = 0
            /\ call.ops[1].arg = <<quipuswapContractAddress, call.param.tokens>>
            /\ call.ops[2].target = quipuswapContractAddress
            /\ call.ops[2].entry = "investLiquidity"
            /\ call.ops[2].amount = call.param.mutez
            /\ call.ops[2].arg = <<call.param.tokens>>
       ELSE call.ops = <<>>

C14_Witness ==
    /\ call.ep = "addLiquidity"
    /\ call.result = OK
    /\ call.param = [tokens |-> 199000000, mutez |-> 1]
    /\ Len(call.ops) = 2

\* C15: a call of any entry point other than sendAllTokens and
\* sendAllTokens_callback leaves state and sendAllTokens_destination as they
\* were, whether it succeeds or fails and whatever the state is.
C15_OthersKeepSweepState ==
    [][ (call'.ep \notin {"sendAllTokens", "sendAllTokens_callback"})
        => /\ state' = state
           /\ sendAllTokens_destination' = sendAllTokens_destination ]_vars

C15_Witness ==
    /\ state = WAITING_FOR_TOKEN_BALANCE
    /\ sendAllTokens_destination # none
    /\ call.ep = "setGovernorContract"
    /\ call.result = OK


(***************************************************************************)
(* The arithmetic of the deviation check                                   *)
(***************************************************************************)

\* an addLiquidity call of the executor whose oracle view answered
C17_PriceChecked ==
    /\ call.ep = "addLiquidity"
    /\ call.view.read
    /\ call.view.value.some

\* the deviation check of the last call passed: the call got beyond line 93
C17_DeviationAccepted ==
    call.result \in {OK, STALE_DATA, AS_NAT_NEGATIVE}

\* C17 as stated: the deviation is a multiple of 100 and is 0 exactly when
\* |oraclePrice - inputPrice| < oraclePrice; for a tolerance in 1..100 the
\* deviation check accepts exactly the calls with inputPrice < 2 * oraclePrice,
\* inputPrice = 0 included; a tolerance of 0 rejects every call; an oracle
\* price of 0 makes every call fail.
C17_Original ==
    C17_PriceChecked
    => LET p == call.view.value.price
           ip == inputPrice(call.param.tokens, call.param.mutez)
           d == volatilityDifference(p, ip)
       IN /\ (p = 0) => (call.result # OK)
          /\ (volatilityTolerance = 0) => (call.result # OK)
          /\ (call.param.mutez > 0 /\ p > 0)
             => /\ d % 100 = 0
                /\ (d = 0) <=> (abs(p - ip) < p)
                /\ (volatilityTolerance \in 1..100)
                   => (C17_DeviationAccepted <=> (ip < 2 * p))

\* C17, amended: the same, except that for a tolerance in 1..100 the
\* deviation check accepts exactly the calls with 0 < inputPrice < 2 *
\* oraclePrice: an inputPrice of 0 has deviation 100 and is rejected.
C17_DeviationArithmetic ==
    C17_PriceChecked
    => LET p == call.view.value.price
           ip == inputPrice(call.param.tokens, call.param.mutez)
           d == volatilityDifference(p, ip)
       IN /\ (p = 0) => (call.result # OK)
          /\ (volatilityTolerance = 0) => (call.result # OK)
          /\ (call.param.mutez > 0 /\ p > 0)
             => /\ d % 100 = 0
                /\ (d = 0) <=> (abs(p - ip) < p)
                /\ (volatilityTolerance \in 1..100)
                   => (C17_DeviationAccepted <=> (0 < ip /\ ip < 2 * p))

C17_Witness ==
    /\ C17_PriceChecked
    /\ volatilityTolerance \in 1..100
    /\ call.param.mutez > 0
    /\ call.view.value.price > 0
    /\ inputPrice(call.param.tokens, call.param.mutez) = 0
    /\ call.result = VOLATILITY


(***************************************************************************)
(* Hand-over of the roles; the fields no entry point assigns               *)
(***************************************************************************)

\* the entry points that check the sender against the governor
C18_GovernorChecked == GovernorOnly \cup {"setDelegate"}

\* the entry points that check the sender against the executor
C18_ExecutorChecked == {"addLiquidity", "veto"}

C19_Settable ==
    <<governorContractAddress, executorContractAddress, volatilityTolerance,
      harbingerContractAddress>>

\* C19: no call changes tokenContractAddress, quipuswapContractAddress or
\* maxDataDelaySec, which keep the values of the deployment; the balance
\* query of a sweep goes to, its answer is accepted from, and the transfer
\* goes to that one token contract; governorContractAddress,
\* executorContractAddress, volatilityTolerance and harbingerContractAddress
\* change only in a successful call of their setter sent by the governor of
\* the time.
C19_FixedConfiguration ==
    [][ /\ tokenContractAddress' = TOKEN_ADDRESS
        /\ quipuswapContractAddress' = QUIPUSWAP_ADDRESS
        /\ maxDataDelaySec' = maxDataDelaySec
        /\ UNCHANGED <<tokenContractAddress, quipuswapContractAddress>>
        /\ (call'.ep = "sendAllTokens" /\ call'.result = OK)
           => /\ Len(call'.ops) = 1
              /\ call'.ops[1].target = TOKEN_ADDRESS
        /\ (call'.ep = "sendAllTokens_callback" /\ call'.result = OK)
           => /\ call'.sender = TOKEN_ADDRESS
              /\ Len(call'.ops) = 1
              /\ call'.ops[1].target = TOKEN_ADDRESS
        /\ (C19_Settable' # C19_Settable)
           => /\ call'.sender = governorContractAddress
              /\ call'.result = OK
        /\ (governorContractAddress' # governorContractAddress)
           => call'.ep = "setGovernorContract"
        /\ (executorContractAddress' # executorContractAddress)
           => call'.ep = "setExecutorContract"
        /\ (volatilityTolerance' # volatilityTolerance)
           => call'.ep = "setVolatilityTolerance"
        /\ (harbingerContractAddress' # harbingerContractAddress)
           => call'.ep = "setHarbingerContract" ]_vars

\* a sweep completed after every settable field has been changed
C19_Witness ==
    /\ governorContractAddress # GOVERNOR_ADDRESS
    /\ executorContractAddress # EXECUTOR_ADDRESS
    /\ volatilityTolerance # DEFAULT_VOLATILITY_TOLERANCE
    /\ harbingerContractAddress # HARBINGER_ADDRESS
    /\ tokenContractAddress = TOKEN_ADDRESS
    /\ call.ep = "sendAllTokens_callback"
    /\ call.result = OK


(***************************************************************************)
(* Completion of the sweep                                                 *)
(***************************************************************************)

\* C16: when the ledger eventually answers the queries it receives, every
\* accepted sendAllTokens (and every state waiting for the balance) is
\* eventually followed by a state with state = IDLE and no saved destination.
C16_SweepCompletes ==
    ((call.ep = "sendAllTokens" /\ call.result = OK)
     \/ state = WAITING_FOR_TOKEN_BALANCE)
    ~> (state = IDLE /\ sendAllTokens_destination = none)

\* the ledger's answer to the proxy's own query has completed a sweep
C16_Witness ==
    /\ call.ep = "sendAllTokens_callback"
    /\ call.result = OK
    /\ reply.some
    /\ reply.owner = SELF_ADDRESS
    /\ state = IDLE
    /\ sendAllTokens_destination = none
    /\ sweep.transfers = 1

====
